---- MODULE Spec2Model ----
(***************************************************************************)
(* A chained hash table (src/src/lib.rs): HashMap<K, V> with insert, get,  *)
(* remove, len, is_empty, contains_key, an internal resize, and the        *)
(* borrowing iterator Iter.                                                *)
(*                                                                         *)
(* Indices are 0-based as in the source; a TLA+ sequence is 1-based, so    *)
(* the chain at source index i is buckets[i + 1].                          *)
(* Option<T> is a sequence of length at most one: None is << >> and        *)
(* Some(x) is << x >>.                                                     *)
(*                                                                         *)
(* insert and remove take &mut self, so they are enabled only while no     *)
(* Iter borrows the table; the &self calls are enabled at any time.  A     *)
(* panic ends the calling thread: no call follows it.                      *)
(* Sequences are built with Append, SubSeq and \o only.                    *)
(***************************************************************************)
EXTENDS Integers, Sequences, FiniteSets, TLC

\* The keys and values the operations are called with (those of the tests).
Keys == {"foo", "bar", "buz"}
Values == {42, 43}
\* the keys in a fixed order
KeyOrder == << "bar", "buz", "foo" >>

\* DefaultHasher is an external collaborator: a deterministic function of
\* the key.  Its digests are drawn from 0..MaxHash, so that keys may
\* collide on the whole digest or only modulo some bucket counts.
MaxHash == 2
\* insert is called only while items < MaxItems (caps the counter).
MaxItems == 4

INITIAL_NBUCKETS == 1

None == << >>
Some(x) == << x >>

VARIABLES
  buckets,   \* HashMap::buckets : Vec<Vec<(K, V)>>
  items,     \* HashMap::items : usize
  hash,      \* the digest DefaultHasher gives each key
  iter,      \* the live Iter, if any: [live, bucket, at]
  yielded,   \* the pairs the live Iter has yielded so far, in order
  shadow,    \* ghost: key -> Some(latest inserted value), None once removed
  last,      \* ghost: the last call, its arguments, result and pre-state
  panicked   \* the thread has panicked (arithmetic fault)

vars == << buckets, items, hash, iter, yielded, shadow, last, panicked >>

----------------------------------------------------------------------------
\* Pure helpers over chains

\* bucket.iter().position(|(ekey, _)| ekey == key): 0-based index, or None
RECURSIVE position_from(_, _, _)
position_from(chain, key, i) ==
  IF i > Len(chain) THEN None
  ELSE IF chain[i][1] = key THEN Some(i - 1)
  ELSE position_from(chain, key, i + 1)

\* a scan that starts at the chain's second element
position_skip_head(chain, key) == position_from(chain, key, 2)

position(chain, key) == position_from(chain, key, 1)

\* .iter().find(|(ekey, _)| ekey == key).map(|(_, v)| v)
find(chain, key) ==
  LET p == position(chain, key)
  IN  IF p = None THEN None ELSE Some(chain[p[1] + 1][2])

\* a removal that drops the chain's last element whatever i is
swap_remove_pop(chain, i) == SubSeq(chain, 1, Len(chain) - 1)

\* Vec::swap_remove(i): the last element takes the place of element i
swap_remove(chain, i) ==
  LET n == Len(chain)
  IN  IF i + 1 = n
      THEN SubSeq(chain, 1, n - 1)
      ELSE SubSeq(chain, 1, i) \o << chain[n] >> \o SubSeq(chain, i + 2, n - 1)

\* HashMap::bucket: hasher.finish() % self.buckets.len(); the caller must
\* have len > 0 (the remainder by zero panics)
bucket(h, bks, key) == h[key] % Len(bks)

\* a drain of the first bucket only
drain_first(bks) == IF bks = << >> THEN << >> ELSE Head(bks)

\* flat_map(|bucket| bucket.drain(..)): every entry, bucket by bucket
RECURSIVE drain(_)
drain(bks) ==
  IF bks = << >> THEN << >> ELSE Head(bks) \o drain(Tail(bks))

\* a rehash that takes the remainder by the old bucket count
RECURSIVE rehash_old_len(_, _, _)
rehash_old_len(h, entries, new_buckets) ==
  IF entries = << >> THEN new_buckets
  ELSE LET e == Head(entries)
           b == h[e[1]] % (Len(new_buckets) \div 2)
       IN  rehash_old_len(h, Tail(entries),
                          [new_buckets EXCEPT ![b + 1] = Append(@, e)])

\* a rehash that stores each entry as its chain's only one
RECURSIVE rehash_overwrite(_, _, _)
rehash_overwrite(h, entries, new_buckets) ==
  IF entries = << >> THEN new_buckets
  ELSE LET e == Head(entries)
           b == h[e[1]] % Len(new_buckets)
       IN  rehash_overwrite(h, Tail(entries),
                            [new_buckets EXCEPT ![b + 1] = << e >>])

\* the loop of resize: push each drained entry on its new chain
RECURSIVE rehash(_, _, _)
rehash(h, entries, new_buckets) ==
  IF entries = << >> THEN new_buckets
  ELSE LET e == Head(entries)
           b == h[e[1]] % Len(new_buckets)
       IN  rehash(h, Tail(entries),
                  [new_buckets EXCEPT ![b + 1] = Append(@, e)])

\* (0..target_size).map(|_| Vec::new()): n empty chains
RECURSIVE empty_chains(_)
empty_chains(n) == IF n = 0 THEN << >> ELSE Append(empty_chains(n - 1), << >>)

\* a resize that triples the bucket count
resize_triple(h, bks) ==
  LET target_size == IF Len(bks) = 0 THEN INITIAL_NBUCKETS ELSE 3 * Len(bks)
  IN  rehash(h, drain(bks), empty_chains(target_size))

\* HashMap::resize
resize(h, bks) ==
  LET target_size == IF Len(bks) = 0 THEN INITIAL_NBUCKETS ELSE 2 * Len(bks)
  IN  rehash(h, drain(bks), empty_chains(target_size))

\* a growth test against the whole bucket count, not three quarters of it
needs_resize_full(bks, n) == Len(bks) = 0 \/ n > Len(bks)

\* a growth test that already fires at three quarters, not above it
needs_resize_at(bks, n) == Len(bks) = 0 \/ n >= (3 * Len(bks)) \div 4

\* the condition of insert's first line
needs_resize(bks, n) == Len(bks) = 0 \/ n > (3 * Len(bks)) \div 4

\* an update that hands back the old value and leaves it in the chain
replace_kept(chain, i, value) == chain

\* mem::replace(evalue, value) on element i of the chain
replace(chain, i, value) == [chain EXCEPT ![i + 1][2] = value]

\* HashMap::insert as a function of the state: the new buckets, the new
\* items and the returned Option
insert_fn(h, bks, n, key, value) ==
  LET bks1 == IF needs_resize(bks, n) THEN resize(h, bks) ELSE bks
      b == bucket(h, bks1, key)
      chain == bks1[b + 1]
      p == position(chain, key)
  IN  IF p # None
      THEN [buckets |-> [bks1 EXCEPT ![b + 1] = replace(chain, p[1], value)],
            items |-> n + 1,
            ret |-> Some(chain[p[1] + 1][2])]
      ELSE [buckets |-> [bks1 EXCEPT ![b + 1] = Append(chain, << key, value >>)],
            items |-> n + 1,
            ret |-> None]

\* HashMap::get on a table with len(buckets) > 0
get_fn(h, bks, key) == find(bks[bucket(h, bks, key) + 1], key)

\* a remove that counts down before it has looked for the key
remove_fn_eager_dec(h, bks, n, key) ==
  LET b == bucket(h, bks, key)
      chain == bks[b + 1]
      p == position(chain, key)
  IN  IF p = None
      THEN [buckets |-> bks, items |-> n - 1, ret |-> None]
      ELSE [buckets |-> [bks EXCEPT ![b + 1] = swap_remove(chain, p[1])],
            items |-> n - 1,
            ret |-> Some(chain[p[1] + 1][2])]

\* HashMap::remove on a table with len(buckets) > 0.  usize::MAX, the
\* result of a wrapping 0 - 1, is written -1.
remove_fn(h, bks, n, key) ==
  LET b == bucket(h, bks, key)
      chain == bks[b + 1]
      p == position(chain, key)
  IN  IF p = None
      THEN [buckets |-> bks, items |-> n, ret |-> None]
      ELSE [buckets |-> [bks EXCEPT ![b + 1] = swap_remove(chain, p[1])],
            items |-> n - 1,
            ret |-> Some(chain[p[1] + 1][2])]

\* a next that keeps `at` when it moves on to the next bucket
RECURSIVE next_keep_at(_, _, _)
next_keep_at(bks, b, at) ==
  IF b < Len(bks)
  THEN IF at < Len(bks[b + 1])
       THEN [bucket |-> b, at |-> at + 1, item |-> Some(bks[b + 1][at + 1])]
       ELSE next_keep_at(bks, b + 1, at)
  ELSE [bucket |-> b, at |-> at, item |-> None]

\* a next that yields the entry without moving `at` along
RECURSIVE next_stuck(_, _, _)
next_stuck(bks, b, at) ==
  IF b < Len(bks)
  THEN IF at < Len(bks[b + 1])
       THEN [bucket |-> b, at |-> at, item |-> Some(bks[b + 1][at + 1])]
       ELSE next_stuck(bks, b + 1, 0)
  ELSE [bucket |-> b, at |-> at, item |-> None]

\* Iter::next: the loop, from position (b, at); the new position and the item
RECURSIVE next_fn(_, _, _)
next_fn(bks, b, at) ==
  IF b < Len(bks)
  THEN IF at < Len(bks[b + 1])
       THEN [bucket |-> b, at |-> at + 1, item |-> Some(bks[b + 1][at + 1])]
       ELSE next_fn(bks, b + 1, 0)
  ELSE [bucket |-> b, at |-> at, item |-> None]

----------------------------------------------------------------------------
\* State machine

NoIter == [live |-> FALSE, bucket |-> 0, at |-> 0]

\* the record of a call: ret is a returned Option<V>, flag a returned bool,
\* num a returned usize, item a returned Option<(K, V)>
Call(op, key, val, ret) ==
  [op |-> op, key |-> key, val |-> val, ret |-> ret,
   flag |-> FALSE, num |-> 0, item |-> None,
   old_len |-> Len(buckets), old_items |-> items]

\* a new() that allocates the initial bucket eagerly
InitAllocated ==
  /\ buckets = empty_chains(INITIAL_NBUCKETS)
  /\ items = 0
  /\ hash \in [Keys -> 0..MaxHash]
  /\ \A i \in 1..(Len(KeyOrder) - 1) : hash[KeyOrder[i]] <= hash[KeyOrder[i + 1]]
  /\ iter = NoIter
  /\ yielded = << >>
  /\ shadow = [k \in Keys |-> None]
  /\ last = [op |-> "new", key |-> "", val |-> 0, ret |-> None,
             flag |-> FALSE, num |-> 0, item |-> None,
             old_len |-> 0, old_items |-> 0]
  /\ panicked = FALSE

\* HashMap::new
Init ==
  /\ buckets = << >>
  /\ items = 0
  /\ hash \in [Keys -> 0..MaxHash]
  \* no operation tells the keys apart except by their digests, so the
  \* digests are taken in non-decreasing order along KeyOrder
  /\ \A i \in 1..(Len(KeyOrder) - 1) : hash[KeyOrder[i]] <= hash[KeyOrder[i + 1]]
  /\ iter = NoIter
  /\ yielded = << >>
  /\ shadow = [k \in Keys |-> None]
  /\ last = [op |-> "new", key |-> "", val |-> 0, ret |-> None,
             flag |-> FALSE, num |-> 0, item |-> None,
             old_len |-> 0, old_items |-> 0]
  /\ panicked = FALSE

\* a panic unwinds the calling thread: nothing is changed, nothing returned
Panic(op, key) ==
  /\ panicked' = TRUE
  /\ last' = Call(op, key, 0, None)
  /\ UNCHANGED << buckets, items, hash, iter, yielded, shadow >>

\* map.insert(key, value); &mut self, so no Iter is live
Insert(key, value) ==
  /\ ~panicked /\ ~iter.live
  /\ items < MaxItems
  /\ LET r == insert_fn(hash, buckets, items, key, value)
     IN  /\ buckets' = r.buckets
         /\ items' = r.items
         /\ last' = Call("insert", key, value, r.ret)
  /\ shadow' = [shadow EXCEPT ![key] = Some(value)]
  /\ UNCHANGED << hash, iter, yielded, panicked >>

\* a get that allocates the buckets of an empty table instead of panicking
GetAllocating(key) ==
  /\ ~panicked
  /\ buckets' = IF Len(buckets) = 0 THEN resize(hash, buckets) ELSE buckets
  /\ last' = Call("get", key, 0, get_fn(hash, buckets', key))
  /\ UNCHANGED << items, hash, iter, yielded, shadow, panicked >>

\* map.get(&key)
Get(key) ==
  /\ ~panicked
  /\ IF Len(buckets) = 0
     THEN Panic("get", key)
     ELSE /\ last' = Call("get", key, 0, get_fn(hash, buckets, key))
          /\ UNCHANGED << buckets, items, hash, iter, yielded, shadow, panicked >>

\* map.contains_key(&key): self.get(key).is_some()
ContainsKey(key) ==
  /\ ~panicked
  /\ IF Len(buckets) = 0
     THEN Panic("contains_key", key)
     ELSE /\ last' = [Call("contains_key", key, 0, None)
                         EXCEPT !.flag = get_fn(hash, buckets, key) # None]
          /\ UNCHANGED << buckets, items, hash, iter, yielded, shadow, panicked >>

\* the call returns r.ret, leaving r.buckets and r.items
Returns(op, key, r) ==
  /\ buckets' = r.buckets
  /\ items' = r.items
  /\ last' = Call(op, key, 0, r.ret)
  /\ shadow' = [shadow EXCEPT ![key] = None]
  /\ UNCHANGED << hash, iter, yielded, panicked >>

\* map.remove(&key); &mut self, so no Iter is live.  items -= 1 on a zero
\* counter panics when overflow checks are on and wraps when they are off.
Remove(key) ==
  /\ ~panicked /\ ~iter.live
  /\ IF Len(buckets) = 0
     THEN Panic("remove", key)
     ELSE LET r == remove_fn(hash, buckets, items, key)
          IN  IF r.items < 0
              THEN Panic("remove", key) \/ Returns("remove", key, r)
              ELSE Returns("remove", key, r)

\* map.len()
LenCall ==
  /\ ~panicked
  /\ last' = [Call("len", "", 0, None) EXCEPT !.num = items]
  /\ UNCHANGED << buckets, items, hash, iter, yielded, shadow, panicked >>

\* map.is_empty()
IsEmpty ==
  /\ ~panicked
  /\ last' = [Call("is_empty", "", 0, None) EXCEPT !.flag = (items = 0)]
  /\ UNCHANGED << buckets, items, hash, iter, yielded, shadow, panicked >>

\* (&map).into_iter()
IntoIter ==
  /\ ~panicked /\ ~iter.live
  /\ iter' = [live |-> TRUE, bucket |-> 0, at |-> 0]
  /\ yielded' = << >>
  /\ last' = Call("into_iter", "", 0, None)
  /\ UNCHANGED << buckets, items, hash, shadow, panicked >>

\* it.next()
IterNext ==
  /\ ~panicked /\ iter.live
  /\ LET r == next_fn(buckets, iter.bucket, iter.at)
     IN  /\ iter' = [live |-> TRUE, bucket |-> r.bucket, at |-> r.at]
         /\ yielded' = yielded \o r.item
         /\ last' = [Call("next", "", 0, None) EXCEPT !.item = r.item]
  /\ UNCHANGED << buckets, items, hash, shadow, panicked >>

\* the Iter goes out of scope
IterDrop ==
  /\ ~panicked /\ iter.live
  /\ iter' = NoIter
  /\ yielded' = << >>
  /\ last' = Call("drop_iter", "", 0, None)
  /\ UNCHANGED << buckets, items, hash, shadow, panicked >>

Next ==
  \/ \E key \in Keys, value \in Values : Insert(key, value)
  \/ \E key \in Keys : Get(key)
  \/ \E key \in Keys : ContainsKey(key)
  \/ \E key \in Keys : Remove(key)
  \/ LenCall
  \/ IsEmpty
  \/ IntoIter
  \/ IterNext
  \/ IterDrop

Spec == Init /\ [][Next]_vars

\* the holder of an Iter keeps calling next() (the for loop of tests::iter)
SpecIterating == Spec /\ WF_vars(IterNext)

----------------------------------------------------------------------------
\* Properties

\* every stored entry, in bucket order then chain order
stored == drain(buckets)
\* the keys inserted and not removed since
present == {k \in Keys : shadow[k] # None}
\* the chain entries with key k
entries_of(bks, k) == {e \in {drain(bks)[i] : i \in 1..Len(drain(bks))} : e[1] = k}
\* what get(k) returns on bks, with None on a table that has no buckets
lookup(bks, k) == IF Len(bks) = 0 THEN None ELSE get_fn(hash, bks, k)
ReadOps == {"get", "contains_key", "len", "is_empty"}

\* C1: in every reachable state len() (the items counter) equals the number
\* of entries stored across all chains, which is the number of distinct
\* keys present.
C1_CountInvariant ==
  /\ items = Len(stored)
  /\ items = Cardinality(present)

\* C2: insert(k, v2) on a table where k is present with value v1 returns
\* Some(v1), get(k) is then Some(v2), and len() is what it was before.
C2_UpdateSemantics ==
  [][\A k \in Keys, v1, v2 \in Values :
       (last'.op = "insert" /\ last'.key = k /\ last'.val = v2
          /\ << k, v1 >> \in entries_of(buckets, k))
       => /\ last'.ret = Some(v1)
          /\ lookup(buckets', k) = Some(v2)
          /\ items' = items]_vars

\* C3: get(k) on a table with zero buckets returns None and does not panic
\* (no remainder by a bucket count of zero).
C3_AbsentOnEmpty ==
  (last.op = "get" /\ last.old_len = 0) => (~panicked /\ last.ret = None)

\* C4: no call addresses a bucket while there are none: remove and
\* contains_key on a never-populated table return None / false without
\* panicking, and insert has allocated buckets before it indexes them.
C4_NoZeroBucketAddressing ==
  /\ (last.op = "remove" /\ last.old_len = 0) => (~panicked /\ last.ret = None)
  /\ (last.op = "contains_key" /\ last.old_len = 0)
       => (~panicked /\ last.flag = FALSE)
  /\ last.op = "insert" => (~panicked /\ Len(buckets) > 0)

\* C5: right after insert(k, v), get(k) is Some(v) and contains_key(k) is
\* true, with or without a resize, whether or not k was present.
C5_RoundTrip ==
  last.op = "insert"
    => /\ ~panicked
       /\ Len(buckets) > 0
       /\ get_fn(hash, buckets, last.key) = Some(last.val)
       /\ get_fn(hash, buckets, last.key) # None

\* an insert that updated a present key, resized, and moved entries
C5_Witness ==
  /\ last.op = "insert" /\ last.ret # None /\ last.ret # Some(last.val)
  /\ last.old_len = 2 /\ Len(buckets) = 4
  /\ Len(stored) = 2
  /\ get_fn(hash, buckets, last.key) = Some(last.val)

\* C6: remove(k) with k present with value v returns Some(v); afterwards
\* get(k) is None and len() is one less than before.
C6_Removal ==
  [][\A k \in Keys, v \in Values :
       (last'.op = "remove" /\ last'.key = k
          /\ << k, v >> \in entries_of(buckets, k))
       => /\ ~panicked'
          /\ last'.ret = Some(v)
          /\ lookup(buckets', k) = None
          /\ items' = items - 1]_vars

\* a remove that found its key at the head of a chain of three
C6_Witness ==
  /\ last.op = "remove" /\ last.ret # None /\ ~panicked
  /\ items = last.old_items - 1
  /\ Len(stored) = 2
  /\ \E i \in 1..Len(buckets) :
       /\ Len(buckets[i]) = 2
       /\ hash[last.key] % Len(buckets) = i - 1
  /\ get_fn(hash, buckets, last.key) = None

\* C7: an iteration run to its end has yielded each present key exactly
\* once, with the value last inserted for it, and nothing else: N pairs
\* for N present keys.
C7_IterationComplete ==
  (last.op = "next" /\ last.item = None)
    => /\ \A k \in present :
            /\ Cardinality({i \in 1..Len(yielded) : yielded[i][1] = k}) = 1
            /\ \E i \in 1..Len(yielded) : yielded[i] = << k, shadow[k][1] >>
       /\ \A i \in 1..Len(yielded) : yielded[i][1] \in present
       /\ Len(yielded) = Cardinality(present)

\* an iteration that ended after three pairs, over empty and shared chains
C7_Witness ==
  /\ last.op = "next" /\ last.item = None
  /\ Len(yielded) = 3
  /\ \E i, j \in 1..Len(buckets) :
       i < j /\ Len(buckets[i]) = 0 /\ Len(buckets[j]) = 2
  /\ items > 3

\* C8 as stated: after an insert the entry count N and the bucket count B
\* satisfy N <= 3/4 * B.
C8_LoadFactor ==
  last.op = "insert" => 4 * Cardinality(present) <= 3 * Len(buckets)

\* C8 as amended: the growth test is made on the count before the entry is
\* placed, so in every state N - 1 <= floor(3 * B / 4) (and N = 0 while
\* there are no buckets).
C8_LoadFactorBeforePlacing ==
  /\ Cardinality(present) = Len(stored)
  /\ IF Len(buckets) = 0
     THEN Len(stored) = 0
     ELSE Len(stored) - 1 <= (3 * Len(buckets)) \div 4

\* an insert after which N exceeds three quarters of B by placing one entry
C8_Witness ==
  /\ last.op = "insert" /\ last.ret = None
  /\ Len(stored) = 2 /\ Len(buckets) = 2
  /\ items = 2
  /\ Len(stored) - 1 = (3 * Len(buckets)) \div 4

\* C9: get, contains_key, len and is_empty change neither the buckets nor
\* the count, so none of them resizes.
C9_ReadOnlyQueries ==
  [][last'.op \in ReadOps => (buckets' = buckets /\ items' = items)]_vars

\* a get that found its key in a table of several buckets
C9_Witness ==
  /\ last.op = "get" /\ last.ret # None /\ ~panicked
  /\ Len(buckets) = 2 /\ Len(stored) = 2

\* C10: remove(k) never changes the bucket count, leaves get(k2) as it was
\* for every other key k2, and with k absent returns None and leaves the
\* count and every chain as they were.
C10_RemoveFrame ==
  [][\A k \in Keys :
       (last'.op = "remove" /\ last'.key = k)
       => /\ Len(buckets') = Len(buckets)
          /\ \A k2 \in Keys \ {k} : lookup(buckets', k2) = lookup(buckets, k2)
          /\ entries_of(buckets, k) = {}
               => /\ ~panicked'
                  /\ last'.ret = None
                  /\ items' = items
                  /\ buckets' = buckets]_vars

\* C11: the table new() returns has no buckets and no entries; on it
\* len() is 0, is_empty() is true and an iteration yields nothing.
C11_NewIsEmpty ==
  /\ last.op = "new" => (Len(buckets) = 0 /\ items = 0 /\ stored = << >>)
  /\ (last.op = "len" /\ last.old_len = 0) => last.num = 0
  /\ (last.op = "is_empty" /\ last.old_len = 0) => last.flag = TRUE
  /\ (last.op = "next" /\ last.old_len = 0)
       => (last.item = None /\ yielded = << >>)

\* a next() on the table as new() left it
C11_Witness ==
  /\ last.op = "next" /\ iter.live
  /\ Len(buckets) = 0 /\ items = 0
  /\ last.item = None /\ yielded = << >>

\* C12 (I1): every stored entry (k, v) lies in the chain at index
\* hash(k) mod len(buckets), for the current bucket count.
C12_Placement ==
  \A i \in 1..Len(buckets) : \A j \in 1..Len(buckets[i]) :
    hash[buckets[i][j][1]] % Len(buckets) = i - 1

\* an insert whose resize moved an older entry to a chain the old table
\* did not have
C12_Witness ==
  /\ last.op = "insert" /\ last.old_len = 2 /\ Len(buckets) = 4
  /\ \E i \in 3..4 : \E j \in 1..Len(buckets[i]) :
       buckets[i][j][1] # last.key

\* C13 (I2): no two stored entries have equal keys, also among keys whose
\* digests are equal and which share a chain.
C13_UniqueKeys ==
  \A i, j \in 1..Len(stored) : stored[i][1] = stored[j][1] => i = j

\* an update of one of two keys with equal digests sharing a chain
C13_Witness ==
  /\ last.op = "insert" /\ last.ret # None
  /\ \E i \in 1..Len(buckets) :
       /\ Len(buckets[i]) = 2
       /\ buckets[i][1][1] = last.key
       /\ hash[buckets[i][1][1]] = hash[buckets[i][2][1]]

\* n is a power of two
RECURSIVE is_pow2(_)
is_pow2(n) == n = 1 \/ (n > 1 /\ n % 2 = 0 /\ is_pow2(n \div 2))

\* C14: the bucket count is 0 or a power of two; it is 0 until the first
\* insert (only insert changes it, and every insert leaves it positive);
\* the first insert makes it 1, every later change doubles it, and it
\* never decreases.
C14_BucketGrowth ==
  [][/\ Len(buckets) = 0 \/ is_pow2(Len(buckets))
     /\ Len(buckets') = 0 \/ is_pow2(Len(buckets'))
     /\ Len(buckets') >= Len(buckets)
     /\ last'.op # "insert" => Len(buckets') = Len(buckets)
     /\ last'.op = "insert" => Len(buckets') > 0
     /\ (last'.op = "insert" /\ Len(buckets) = 0) => Len(buckets') = 1
     /\ (Len(buckets) > 0 /\ Len(buckets') # Len(buckets))
          => Len(buckets') = 2 * Len(buckets)]_vars

\* a table that has grown 0 -> 1 -> 2 -> 4 and then lost all its entries
C14_Witness ==
  /\ last.op = "remove" /\ last.ret # None
  /\ Len(buckets) = 4 /\ stored = << >>

\* C15: insert(k, v) resizes exactly once, before placing the entry, iff
\* at the call the bucket count is 0 or items > floor(3 * len / 4), for
\* present and absent k alike; otherwise it keeps the bucket count.
C15_ResizeTrigger ==
  [][\A k \in Keys, v \in Values :
       (last'.op = "insert" /\ last'.key = k /\ last'.val = v)
       => /\ IF Len(buckets) = 0 \/ items > (3 * Len(buckets)) \div 4
             THEN Len(buckets') =
                    IF Len(buckets) = 0 THEN 1 ELSE 2 * Len(buckets)
             ELSE Len(buckets') = Len(buckets)
          /\ \E j \in 1..Len(buckets'[(hash[k] % Len(buckets')) + 1]) :
               buckets'[(hash[k] % Len(buckets')) + 1][j] = << k, v >>]_vars

\* an insert of a present key that resized a table of one entry
C15_Witness ==
  /\ last.op = "insert" /\ last.ret # None
  /\ last.old_len = 1 /\ last.old_items = 1 /\ Len(buckets) = 2
  /\ Len(stored) = 1

\* how many times the pair e occurs in the sequence seq
occurrences(seq, e) == Cardinality({i \in 1..Len(seq) : seq[i] = e})

\* C16: a resize keeps the multiset of stored (key, value) pairs and the
\* count: nothing is lost, duplicated or given another value; only the
\* chains the entries lie in change.  Stated of resize on every reachable
\* table, and of the table an insert that resized has left: it holds the
\* pairs inserted and not removed, and items grew by the insert's own one.
C16_ResizeKeepsContents ==
  LET resized == resize(hash, buckets)
  IN  /\ \A e \in Keys \X Values :
           occurrences(drain(resized), e) = occurrences(stored, e)
      /\ Len(drain(resized)) = Len(stored)
      /\ (last.op = "insert" /\ Len(buckets) # last.old_len)
           => /\ \A e \in Keys \X Values :
                   occurrences(stored, e) =
                     IF shadow[e[1]] = Some(e[2]) THEN 1 ELSE 0
              /\ items = last.old_items + 1

\* an insert whose resize kept one older entry on its chain and moved
\* another to a new chain
C16_Witness ==
  /\ last.op = "insert" /\ last.ret = None
  /\ last.old_len = 2 /\ Len(buckets) = 4 /\ Len(stored) = 3
  /\ \E i \in 1..2, j \in 3..4 :
       /\ Len(buckets[i]) > 0 /\ buckets[i][1][1] # last.key
       /\ Len(buckets[j]) > 0 /\ buckets[j][1][1] # last.key

ahead ==
  {p \in (0..(Len(buckets) - 1)) \X (0..Len(stored)) :
     /\ p[1] >= iter.bucket
     /\ p[2] < Len(buckets[p[1] + 1])
     /\ (p[1] = iter.bucket => p[2] >= iter.at)}
\* the first of them, in bucket order then chain order
first_ahead ==
  CHOOSE p \in ahead :
    \A q \in ahead : p[1] < q[1] \/ (p[1] = q[1] /\ p[2] <= q[2])
\* the Iter is past the last bucket
exhausted == iter.bucket >= Len(buckets)

\* what one call of next() does
NextCallProgress ==
  last'.op = "next"
    => /\ buckets' = buckets
       /\ iter'.bucket >= iter.bucket
       /\ IF ahead = {}
          THEN /\ last'.item = None
               /\ iter'.bucket >= Len(buckets)
               /\ yielded' = yielded
          ELSE /\ last'.item = Some(buckets[first_ahead[1] + 1][first_ahead[2] + 1])
               /\ iter'.bucket = first_ahead[1]
               /\ iter'.at = first_ahead[2] + 1
               /\ iter'.bucket = iter.bucket => iter'.at = iter.at + 1
               /\ iter'.bucket > iter.bucket => iter'.at = 1
               /\ Len(yielded') = Len(yielded) + 1
               /\ Len(yielded') <= Len(stored)
       /\ exhausted => (last'.item = None /\ iter' = iter)

\* C18: while it borrows the table, an Iter whose next() keeps being
\* called reaches end-of-iteration; its bucket index never decreases; a
\* call yields the entry at (bucket, at) and advances `at`, or moves on to
\* a later bucket with `at` restarted from 0; and past the last bucket
\* every call returns None again.
C18_IterTerminates ==
  /\ [][NextCallProgress]_vars
  /\ (iter.live ~> (exhausted \/ ~iter.live \/ panicked))

\* an Iter at end-of-iteration, past the last of four buckets, after
\* yielding from two chains with an empty chain between them
C18_Witness ==
  /\ last.op = "next" /\ last.item = None /\ iter.live
  /\ last.old_len = 4 /\ iter.bucket = 4
  /\ Len(yielded) = 3 /\ Len(buckets[2]) = 0
  /\ Len(buckets[1]) > 0 /\ Len(buckets[3]) > 0

\* C19: the items counter never underflows: it is at least the number of
\* entries stored, so the decrement of a remove that found its key is
\* never applied to 0 (no wrapped counter, no overflow panic in remove).
C19_NoUnderflow ==
  /\ items >= Len(stored)
  /\ items >= 0
  /\ (panicked /\ last.op = "remove") => last.old_len = 0

\* a remove that found its key and took the counter from 1 to 0
C19_Witness ==
  /\ last.op = "remove" /\ last.ret # None /\ ~panicked
  /\ last.old_items = 1 /\ items = 0 /\ stored = << >>

====
